---- MODULE Spec2Model ----
(***************************************************************************)
(* A model of the two programs of the repository:                          *)
(*   - HrJobCreationFlow (src/src/crewai_flow_workshop1/main.py): one turn  *)
(*     of the conversation is kickoff -> starting_flow -> routing_intent -> *)
(*     the listener(s) of the returned route;                               *)
(*   - the AMP client (src/research_frontend/api.py): api_request,          *)
(*     kickoff_research, poll_status, extract_response.                     *)
(* Python values are tagged records; a Python str is a sequence of lexemes. *)
(***************************************************************************)
EXTENDS Integers, Sequences, FiniteSets, TLC

VARIABLES
    state,      \* HrJobCreationFlow.state : FlowState (in memory)
    saved,      \* the FlowState last written by @persist()
    pc,         \* where the flow is: idle, routing, branching, done, failed
    pending,    \* the listeners the flow still has to run in this turn
    response,   \* what llm.call returned to routing_intent in this turn
    pre,        \* history: the FlowState when the turn began (before kickoff)
    route,      \* history: the value routing_intent returned in this turn
    runs,       \* history: how often each listener ran in this turn
    failedIn,   \* history: the method whose call raised in this turn
    turn,       \* history: number of turns begun
    asked,      \* history: what the listener of this turn handed to its generation call
    apiIn,      \* the call made to api.py: the function and what it is given
    apiOut,     \* what that call did: not called yet, returned a value, raised
    sent,       \* the HTTP requests that call handed to requests.get / requests.post
    jobs,       \* the gateway's job table: job number -> state, result, last task
    handles,    \* the job ids kickoff_research has returned to the client
    returned,   \* history: per job, what the last poll_status of it did
    firstFinal, \* history: per job, the first of SUCCESS, FAILURE, TIMEOUT a poll returned
    clean,      \* history: per job, the last poll was answered and the job has not moved since
    lastOp      \* history: the step taken last

flowVars == <<state, saved, pc, pending, response, pre, route, runs, failedIn, turn, asked>>

apiVars == <<apiIn, apiOut, sent>>

jobVars == <<jobs, handles, returned, firstFinal, clean, lastOp>>

vars == <<flowVars, apiVars, jobVars>>

----------------------------------------------------------------------------
(* Bounds *)

MaxTurns == 2

MaxJobs == 1

----------------------------------------------------------------------------
(* Python values *)

None == [t |-> "none"]

Str(s) == [t |-> "str", v |-> s]

Num(n) == [t |-> "int", v |-> n]

List(s) == [t |-> "list", v |-> s]

Dict(f) == [t |-> "dict", v |-> f]

\* bool(x): None, "", 0, [] and {} are falsy
Truthy(x) ==
    CASE x.t = "none" -> FALSE
      [] x.t = "str"  -> x.v # << >>
      [] x.t = "int"  -> x.v # 0
      [] x.t = "list" -> x.v # << >>
      [] x.t = "dict" -> DOMAIN x.v # {}
      [] OTHER        -> TRUE

----------------------------------------------------------------------------
(* main.py: the data *)

Intents == {"job_creation", "conversation", "refinement"}

\* what the classifier may put into an Optional[str] field
FieldValues == {None, Str(<< >>), Str(<<"a">>), Str(<<"b">>)}

\* RouterIntent (reasoning is never read by the flow and is left out)
RouterIntent ==
    [user_intent : Intents, job_role : FieldValues, location : FieldValues,
     company_name : FieldValues, feedback : FieldValues]

\* what llm.call can do in routing_intent: raise, return text (a str has none
\* of the attributes routing_intent reads), or return a RouterIntent
LlmRaised == [kind |-> "raised"]

LlmText == [kind |-> "text"]

LlmIntent(r) == [kind |-> "intent", value |-> r]

ClassifierOutcomes == {LlmRaised, LlmText} \cup {LlmIntent(r) : r \in RouterIntent}

NoResponse == [kind |-> "none"]

\* the messages a user sends with kickoff(inputs={"user_message": ...}); every
\* turn of the conversations explored carries a non-empty message
UserMessages == {Str(<<"u">>)}

\* what the reply LLM, the crew and the editor agent return (result.raw)
Replies == {Str(<<"r">>)}

Postings == {Str(<<"p1">>), Str(<<"p2">>)}

\* Message (the timestamp is left out: nothing reads it)
Message(role, content) == [role |-> role, content |-> content]

\* FlowState()
FlowState ==
    [user_message |-> Str(<<"HI, create a job posting for a data engineer based in NYC for Johnson & Johnson">>),
     message_history |-> << >>,
     job_role |-> None, location |-> None, company_name |-> None,
     job_posting |-> None, feedback |-> None]

CollectedFields == {"job_role", "location", "company_name", "feedback"}

Methods == {"follow_up_conversation", "handle_job_creation", "handle_refinement"}

\* the outcome of running one method of the flow on a state
Returned(st, val) == [raised |-> FALSE, state |-> st, ret |-> val]

Raised(st) == [raised |-> TRUE, state |-> st, ret |-> None]

----------------------------------------------------------------------------
(* main.py: the methods *)

add_message(st, role, content) ==
    [st EXCEPT !.message_history = Append(@, Message(role, content))]

starting_flow(st) ==
    IF Truthy(st.user_message)
    THEN Returned(add_message(st, "user", st.user_message), st.user_message)
    ELSE Returned(st, st.user_message)

\* a merge that lets an empty classifier value overwrite the stored one
MergeField_Overwrite(st, r, k) == r[k]

\* lines 104-111: one `if response.k: self.state.k = response.k` per field
MergeField(st, r, k) == IF Truthy(r[k]) THEN r[k] ELSE st[k]

\* a router that makes up an intent when the text it got is no RouterIntent
routing_intent_Fallback(st, out) ==
    IF out.kind = "raised" THEN Raised(st)
    ELSE IF out.kind = "text" THEN Returned(st, "conversation")
    ELSE LET r == out.value
         IN Returned([st EXCEPT !.job_role = MergeField(st, r, "job_role"),
                                !.location = MergeField(st, r, "location"),
                                !.company_name = MergeField(st, r, "company_name"),
                                !.feedback = MergeField(st, r, "feedback")],
                     r.user_intent)

routing_intent(st, out) ==
    IF out.kind = "raised" THEN Raised(st)              \* llm.call raises
    ELSE IF out.kind = "text" THEN Raised(st)           \* response.job_role: AttributeError
    ELSE LET r == out.value
             st1 == [st EXCEPT !.job_role = MergeField(st, r, "job_role")]
             st2 == [st1 EXCEPT !.location = MergeField(st1, r, "location")]
             st3 == [st2 EXCEPT !.company_name = MergeField(st2, r, "company_name")]
             st4 == [st3 EXCEPT !.feedback = MergeField(st3, r, "feedback")]
         IN Returned(st4, r.user_intent)

\* handle_refinement decorated with the route of handle_job_creation as well
Listeners_FanOut(r) ==
    CASE r = "conversation" -> {"follow_up_conversation"}
      [] r = "job_creation" -> {"handle_job_creation", "handle_refinement"}
      [] r = "refinement"   -> {"handle_refinement"}
      [] OTHER              -> {}

\* @listen(...): the methods that listen to a route
Listeners(r) ==
    CASE r = "conversation" -> {"follow_up_conversation"}
      [] r = "job_creation" -> {"handle_job_creation"}
      [] r = "refinement"   -> {"handle_refinement"}
      [] OTHER              -> {}

\* f"{x}" of an Optional[str]
Format(x) == IF x = None THEN Str(<<"None">>) ELSE x

RECURSIVE JoinComma(_)
\* ", ".join(items)
JoinComma(items) ==
    IF items = << >> THEN << >>
    ELSE IF Len(items) = 1 THEN items[1]
    ELSE items[1] \o <<", ">> \o JoinComma(Tail(items))

\* the three fields in the order follow_up_conversation looks at them
RequiredFields == <<"job_role", "location", "company_name">>

CollectedLabel(k) ==
    CASE k = "job_role" -> "Job Role: " [] k = "location" -> "Location: " [] k = "company_name" -> "Company: "

MissingLabel(k) ==
    CASE k = "job_role" -> "job role" [] k = "location" -> "location" [] k = "company_name" -> "company name"

\* lines 119-135: the list `collected`
collected(st) ==
    LET Has(k) == Truthy(st[k])
        ks == SelectSeq(RequiredFields, Has)
    IN [i \in 1..Len(ks) |-> <<CollectedLabel(ks[i])>> \o st[ks[i]].v]

\* a list `missing` that never holds the company name
missing_WithoutCompany(st) ==
    LET Lacks(k) == ~Truthy(st[k]) /\ k # "company_name"
        ks == SelectSeq(RequiredFields, Lacks)
    IN [i \in 1..Len(ks) |-> <<MissingLabel(ks[i])>>]

\* lines 119-135: the list `missing`
missing(st) ==
    LET Lacks(k) == ~Truthy(st[k])
        ks == SelectSeq(RequiredFields, Lacks)
    IN [i \in 1..Len(ks) |-> <<MissingLabel(ks[i])>>]

\* lines 137-166: what the prompt of follow_up_conversation is made of
follow_up_prompt(st) ==
    [user_message   |-> st.user_message,
     message_history |-> st.message_history,
     collected_str  |-> IF collected(st) # << >> THEN JoinComma(collected(st)) ELSE <<"Nothing yet">>,
     missing_str    |-> JoinComma(missing(st))]

\* lines 183-187: the inputs of crew.kickoff
crew_inputs(st) ==
    [job_role |-> st.job_role, location |-> st.location, company_name |-> st.company_name]

\* lines 219-233: what the prompt of handle_refinement is made of
refinement_prompt(st) ==
    [job_posting |-> Format(st.job_posting), feedback |-> Format(st.feedback)]

NotAsked == [t |-> "not asked"]

\* gen is what the generation call does: [raised |-> TRUE] or [raised |-> FALSE, raw |-> text]
follow_up_conversation(st, gen) ==
    IF gen.raised THEN Raised(st)
    ELSE Returned(add_message(st, "assistant", gen.raw), gen.raw)

\* a handler that drops the old posting before the crew is asked for a new one
handle_job_creation_ClearFirst(st, gen) ==
    IF gen.raised THEN Raised([st EXCEPT !.job_posting = None])
    ELSE Returned(add_message([st EXCEPT !.job_posting = gen.raw], "assistant", gen.raw), gen.raw)

handle_job_creation(st, gen) ==
    IF gen.raised THEN Raised(st)
    ELSE Returned(add_message([st EXCEPT !.job_posting = gen.raw], "assistant", gen.raw), gen.raw)

\* an editor that writes its message into the history before the agent has answered
handle_refinement_MessageFirst(st, gen) ==
    IF gen.raised THEN Raised(add_message(st, "assistant", Format(st.job_posting)))
    ELSE Returned(add_message([st EXCEPT !.job_posting = gen.raw], "assistant", gen.raw), gen.raw)

handle_refinement(st, gen) ==
    IF gen.raised THEN Raised(st)
    ELSE Returned(add_message([st EXCEPT !.job_posting = gen.raw], "assistant", gen.raw), gen.raw)

GenOutcomes(texts) == {[raised |-> TRUE]} \cup {[raised |-> FALSE, raw |-> x] : x \in texts}

NoRuns == [m \in Methods |-> 0]

----------------------------------------------------------------------------
(* main.py: the flow, one action per method *)

\* hr_flow.kickoff(inputs={"user_message": msg}) and @start() starting_flow
StartingFlow(msg) ==
    /\ pc \in {"idle", "done", "failed"}
    /\ turn < MaxTurns
    /\ LET out == starting_flow([state EXCEPT !.user_message = msg])
       IN /\ state' = out.state
          /\ saved' = out.state
    /\ pre' = state
    /\ pc' = "routing"
    /\ pending' = {}
    /\ response' = NoResponse
    /\ route' = None
    /\ runs' = NoRuns
    /\ failedIn' = "none"
    /\ turn' = turn + 1
    /\ asked' = NotAsked
    /\ UNCHANGED <<apiVars, jobVars>>

\* @router(starting_flow) routing_intent
RoutingIntent(llm) ==
    /\ pc = "routing"
    /\ LET out == routing_intent(state, llm)
       IN /\ state' = out.state
          /\ response' = llm
          /\ IF out.raised
             THEN /\ pc' = "failed"
                  /\ failedIn' = "routing_intent"
                  /\ pending' = {}
                  /\ route' = None
                  /\ saved' = saved
             ELSE /\ pending' = Listeners(out.ret)
                  /\ pc' = IF Listeners(out.ret) = {} THEN "done" ELSE "branching"
                  /\ failedIn' = failedIn
                  /\ route' = Str(<<out.ret>>)
                  /\ saved' = out.state
    /\ UNCHANGED <<pre, runs, turn, asked, apiVars, jobVars>>

\* a listener of the route has run: it handed prompt to its generation call, with outcome out
Finish(m, prompt, out) ==
    /\ state' = out.state
    /\ asked' = prompt
    /\ runs' = [runs EXCEPT ![m] = @ + 1]
    /\ IF out.raised
       THEN /\ pc' = "failed"
            /\ failedIn' = m
            /\ pending' = {}
            /\ saved' = saved
       ELSE /\ pending' = pending \ {m}
            /\ pc' = IF pending \ {m} = {} THEN "done" ELSE "branching"
            /\ failedIn' = failedIn
            /\ saved' = out.state
    /\ response' = NoResponse
    /\ UNCHANGED <<pre, route, turn, apiVars, jobVars>>

\* @listen("conversation")
FollowUpConversation(gen) ==
    /\ pc = "branching"
    /\ "follow_up_conversation" \in pending
    /\ Finish("follow_up_conversation", follow_up_prompt(state), follow_up_conversation(state, gen))

\* @listen("job_creation")
HandleJobCreation(gen) ==
    /\ pc = "branching"
    /\ "handle_job_creation" \in pending
    /\ Finish("handle_job_creation", crew_inputs(state), handle_job_creation(state, gen))

\* @listen("refinement")
HandleRefinement(gen) ==
    /\ pc = "branching"
    /\ "handle_refinement" \in pending
    /\ Finish("handle_refinement", refinement_prompt(state), handle_refinement(state, gen))


----------------------------------------------------------------------------
(* api.py: Python dicts, and JSON text as a sequence of lexemes *)

\* a one-lexeme str, as used for dict keys and status names
K(w) == Str(<<w>>)

EmptyMap == [k \in {} |-> None]

Put(f, k, x) == [y \in DOMAIN f \cup {k} |-> IF y = k THEN x ELSE f[y]]

\* d.get(k, default) of a dict d
Get(d, k, default) == IF k \in DOMAIN d.v THEN d.v[k] ELSE default

Q == "\""

NumberLexemes == {"0", "5"}

NumberOf(w) == IF w = "0" THEN 0 ELSE 5

ParseFail == [ok |-> FALSE, val |-> None, rest |-> << >>]

ParseOk(x, rest) == [ok |-> TRUE, val |-> x, rest |-> rest]

Drop(s, n) == SubSeq(s, n + 1, Len(s))

\* the text after an opening quote: the str up to the closing quote
ParseString(s) ==
    LET closing == {i \in 1..Len(s) : s[i] = Q}
    IN IF closing = {} THEN ParseFail
       ELSE LET i == CHOOSE j \in closing : \A m \in closing : j <= m
            IN ParseOk(Str(SubSeq(s, 1, i - 1)), Drop(s, i))

RECURSIVE ParseValue(_), ParseMembers(_, _), ParseElements(_, _)

\* after "{" or ",": "key" : value, then "," or "}"; a repeated key keeps the last value
ParseMembers(s, acc) ==
    IF s = << >> \/ Head(s) # Q THEN ParseFail
    ELSE LET key == ParseString(Tail(s))
         IN IF ~key.ok \/ key.rest = << >> \/ Head(key.rest) # ":" THEN ParseFail
            ELSE LET val == ParseValue(Tail(key.rest))
                 IN IF ~val.ok \/ val.rest = << >> THEN ParseFail
                    ELSE LET acc1 == Put(acc, key.val, val.val)
                         IN CASE Head(val.rest) = "," -> ParseMembers(Tail(val.rest), acc1)
                              [] Head(val.rest) = "}" -> ParseOk(Dict(acc1), Tail(val.rest))
                              [] OTHER -> ParseFail

\* after "[" or ",": value, then "," or "]"
ParseElements(s, acc) ==
    LET val == ParseValue(s)
    IN IF ~val.ok \/ val.rest = << >> THEN ParseFail
       ELSE CASE Head(val.rest) = "," -> ParseElements(Tail(val.rest), Append(acc, val.val))
              [] Head(val.rest) = "]" -> ParseOk(List(Append(acc, val.val)), Tail(val.rest))
              [] OTHER -> ParseFail

ParseValue(s) ==
    IF s = << >> THEN ParseFail
    ELSE CASE Head(s) = Q -> ParseString(Tail(s))
           [] Head(s) = "{" ->
                IF Len(s) >= 2 /\ s[2] = "}" THEN ParseOk(Dict(EmptyMap), Drop(s, 2))
                ELSE ParseMembers(Tail(s), EmptyMap)
           [] Head(s) = "[" ->
                IF Len(s) >= 2 /\ s[2] = "]" THEN ParseOk(List(<< >>), Drop(s, 2))
                ELSE ParseElements(Tail(s), << >>)
           [] Head(s) = "null" -> ParseOk(None, Tail(s))
           [] Head(s) \in NumberLexemes -> ParseOk(Num(NumberOf(Head(s))), Tail(s))
           [] OTHER -> ParseFail

\* json.loads(text): ok is FALSE where it raises json.JSONDecodeError
JsonLoads(text) ==
    LET r == ParseValue(text)
    IN IF r.ok /\ r.rest = << >> THEN r ELSE ParseFail

----------------------------------------------------------------------------
(* api.py: the functions *)

\* what a function of api.py did: returned a value, or raised past its caller
Ret(x) == [raised |-> FALSE, ret |-> x]

Exc == [raised |-> TRUE, ret |-> None]

\* what the HTTP exchange of api_request can do
NetworkError == [kind |-> "network_error"]          \* requests.get / requests.post raises

HttpError(code) == [kind |-> "http_error", status |-> code]   \* raise_for_status raises

\* 2xx with a body that is no JSON: resp.json() raises requests' JSONDecodeError,
\* a RequestException since requests 2.27
NotJson == [kind |-> "not_json"]

Json(body) == [kind |-> "json", body |-> body]      \* 2xx, resp.json() returns body

\* the secrets: what st.secrets or os.environ holds under each key, None when neither has it
_get_secret(secrets, key) == secrets[key]

\* st.error(msg) followed by st.stop(): the script run ends, nothing is returned
Stopped(msg) == [raised |-> TRUE, ret |-> [t |-> "stop", error |-> msg]]

RECURSIVE Rstrip(_)
\* url.rstrip("/") on the lexemes of url
Rstrip(s) ==
    IF s = << >> THEN s
    ELSE IF s[Len(s)] = "/" THEN Rstrip(SubSeq(s, 1, Len(s) - 1))
    ELSE s

_api_url(secrets) ==
    LET url == _get_secret(secrets, "CRW_API_URL")
    IN IF ~Truthy(url) THEN Stopped("CRW_API_URL is not configured")
       ELSE Ret(Str(Rstrip(url.v)))

\* a _headers that sends the request without credentials when no token is set
_headers_Anonymous(secrets) ==
    LET token == _get_secret(secrets, "CRW_API_TOKEN")
    IN IF ~Truthy(token) THEN Ret([ContentType |-> "application/json"])
       ELSE Ret([Authorization |-> <<"Bearer", token>>, ContentType |-> "application/json"])

_headers(secrets) ==
    LET token == _get_secret(secrets, "CRW_API_TOKEN")
    IN IF ~Truthy(token) THEN Stopped("CRW_API_TOKEN is not configured")
       ELSE Ret([Authorization |-> <<"Bearer", token>>, ContentType |-> "application/json"])

\* what api_request did (out) and the requests it handed to the requests library (sent)
Call(out, requests) == [out |-> out, sent |-> requests]

\* api_request(endpoint, method, data) under the given secrets, where http is
\* what the exchange does once the request is made. Every
\* requests.exceptions.RequestException becomes None; a URL without a scheme
\* is one (MissingSchema), raised before anything is sent.
api_request(secrets, req, http) ==
    LET url == _api_url(secrets)
    IN IF url.raised THEN Call(url, << >>)
       ELSE IF req.method \notin {"GET", "POST"} THEN Call(Exc, << >>)      \* ValueError
       ELSE LET headers == _headers(secrets)
            IN IF headers.raised THEN Call(headers, << >>)
               ELSE IF url.ret.v = << >> THEN Call(Ret(None), << >>)
               ELSE Call(Ret(IF http.kind = "json" THEN http.body ELSE None),
                         <<[method |-> req.method, url |-> <<url.ret, req.endpoint>>,
                            headers |-> headers.ret, json |-> req.data]>>)


\* the request kickoff_research makes: api_request("kickoff", method="POST", data=payload)
KickoffRequest(user_message, chat_id) ==
    [method |-> "POST", endpoint |-> <<"kickoff">>,
     data |-> [user_message |-> user_message, id |-> chat_id]]

\* a poll that posts to the kickoff endpoint instead of reading the status
PollRequest_Post(kickoff_id) ==
    [method |-> "POST", endpoint |-> <<"kickoff">>,
     data |-> [user_message |-> kickoff_id, id |-> kickoff_id]]

\* the request poll_status makes: api_request(f"status/{kickoff_id}"), a GET
PollRequest(kickoff_id) ==
    [method |-> "GET", endpoint |-> <<"status", kickoff_id>>, data |-> None]

YesNo(b) == IF b THEN "yes" ELSE "no"

\* `k in x`: a key of a dict, an element of a list, a part of a str;
\* "raise" where Python raises TypeError (x is not a container)
Contains(x, k) ==
    CASE x.t = "dict" -> YesNo(k \in DOMAIN x.v)
      [] x.t = "list" -> YesNo(\E i \in 1..Len(x.v) : x.v[i] = k)
      [] x.t = "str"  -> YesNo(\E i \in 1..Len(x.v) : <<x.v[i]>> = k.v)
      [] OTHER        -> "raise"

\* kickoff_research, from the value api_request returned
kickoff_research(result) ==
    IF ~Truthy(result) THEN Ret(None)
    ELSE LET has == Contains(result, K("kickoff_id"))
         IN IF has = "raise" THEN Exc
            ELSE IF has = "no" THEN Ret(None)
            ELSE IF result.t = "dict" THEN Ret(result.v[K("kickoff_id")])
            ELSE Exc                                 \* result["kickoff_id"]: TypeError

StatusDict(st, res, task) ==
    Dict(Put(Put(Put(EmptyMap, K("state"), st), K("result"), res), K("last_executed_task"), task))

\* a poll_status that never decodes text: every text result is wrapped
ParsedResult_NoDecode(st, data) ==
    IF st = K("SUCCESS") /\ Truthy(Get(data, K("result"), None))
    THEN LET raw == data.v[K("result")]
         IN IF raw.t = "str" THEN Dict(Put(EmptyMap, K("response"), raw))
            ELSE IF raw.t = "dict" THEN raw
            ELSE None
    ELSE None

\* a poll_status that parses the result whatever the state is
ParsedResult_AnyState(st, data) ==
    IF Truthy(Get(data, K("result"), None))
    THEN LET raw == data.v[K("result")]
         IN IF raw.t = "str"
            THEN LET parsed == JsonLoads(raw.v)
                 IN IF parsed.ok THEN parsed.val
                    ELSE Dict(Put(EmptyMap, K("response"), raw))
            ELSE IF raw.t = "dict" THEN raw
            ELSE None
    ELSE None

\* lines 83-92: the result poll_status returns
ParsedResult(st, data) ==
    IF st = K("SUCCESS") /\ Truthy(Get(data, K("result"), None))
    THEN LET raw == data.v[K("result")]
         IN IF raw.t = "str"
            THEN LET parsed == JsonLoads(raw.v)
                 IN IF parsed.ok THEN parsed.val
                    ELSE Dict(Put(EmptyMap, K("response"), raw))
            ELSE IF raw.t = "dict" THEN raw
            ELSE None
    ELSE None

\* a poll_status that reports a failed exchange as a job still pending
poll_status_PendingOnFailure(data) ==
    IF ~Truthy(data) THEN Ret(StatusDict(K("PENDING"), None, None))
    ELSE IF data.t # "dict" THEN Exc
    ELSE LET st == Get(data, K("state"), K("UNKNOWN"))
             last_task == Get(data, K("last_executed_task"), None)
         IN Ret(StatusDict(st, ParsedResult(st, data), last_task))

\* a poll_status that takes a response without a state for a job still pending
poll_status_DefaultPending(data) ==
    IF ~Truthy(data) THEN Ret(StatusDict(K("ERROR"), None, None))
    ELSE IF data.t # "dict" THEN Exc
    ELSE LET st == Get(data, K("state"), K("PENDING"))
             last_task == Get(data, K("last_executed_task"), None)
         IN Ret(StatusDict(st, ParsedResult(st, data), last_task))

\* poll_status, from the value api_request returned
poll_status(data) ==
    IF ~Truthy(data) THEN Ret(StatusDict(K("ERROR"), None, None))
    ELSE IF data.t # "dict" THEN Exc                 \* data.get: AttributeError
    ELSE LET st == Get(data, K("state"), K("UNKNOWN"))
             last_task == Get(data, K("last_executed_task"), None)
         IN Ret(StatusDict(st, ParsedResult(st, data), last_task))

\* `a or b`
Or(a, b) == IF Truthy(a) THEN a ELSE b

\* an extract_response that looks at chat_response first
extract_response_ChatFirst(status_result) ==
    IF ~Truthy(status_result) THEN Ret(None)
    ELSE IF status_result.t # "dict" THEN Exc
    ELSE Ret(Or(Get(status_result, K("chat_response"), None),
                Get(status_result, K("response"), None)))

extract_response(status_result) ==
    IF ~Truthy(status_result) THEN Ret(None)
    ELSE IF status_result.t # "dict" THEN Exc        \* status_result.get: AttributeError
    ELSE Ret(Or(Get(status_result, K("response"), None),
                Get(status_result, K("chat_response"), None)))

----------------------------------------------------------------------------
(* api.py: the values the functions are given *)

\* json.dumps on the gateway's side; a dict is written in the order of keys
Join(a, b) == a \o b

RECURSIVE Dumps(_), DumpsMembers(_, _, _), DumpsElements(_)

DumpsMembers(f, keys, first) ==
    IF keys = << >> THEN << >>
    ELSE IF Head(keys) \notin DOMAIN f THEN DumpsMembers(f, Tail(keys), first)
    ELSE Join(Join(IF first THEN << >> ELSE <<",">>,
                   Join(Join(<<Q>>, Head(keys).v), <<Q, ":">>)),
              Join(Dumps(f[Head(keys)]), DumpsMembers(f, Tail(keys), FALSE)))

DumpsElements(s) ==
    IF s = << >> THEN << >>
    ELSE IF Len(s) = 1 THEN Dumps(s[1])
    ELSE Join(Join(Dumps(Head(s)), <<",">>), DumpsElements(Tail(s)))

KeyOrder == <<K("response"), K("chat_response"), K("sources")>>

Dumps(x) ==
    CASE x.t = "none" -> <<"null">>
      [] x.t = "str"  -> Join(Join(<<Q>>, x.v), <<Q>>)
      [] x.t = "int"  -> IF x.v = 0 THEN <<"0">> ELSE <<"5">>
      [] x.t = "list" -> Join(Join(<<"[">>, DumpsElements(x.v)), <<"]">>)
      [] x.t = "dict" -> Join(Join(<<"{">>, DumpsMembers(x.v, KeyOrder, TRUE)), <<"}">>)

AliasKeys == {K("response"), K("chat_response")}

\* the values a result object holds under an alias
Answers == {None, Str(<< >>), Str(<<"x">>), Str(<<"y">>)}

\* result objects: every assignment of answers to a set of aliases, and one
\* object with no alias at all
Objects ==
    {Dict(f) : f \in UNION {[D -> Answers] : D \in SUBSET AliasKeys}}
        \cup {Dict(Put(EmptyMap, K("sources"), List(<<Num(5)>>)))}

ObjectTexts == {Dumps(o) : o \in Objects}

\* JSON text that encodes something other than an object
NonObjectTexts ==
    {Dumps(x) : x \in {Str(<<"x">>), Str(<< >>), Num(5), Num(0), None,
                       List(<< >>), List(<<Num(5)>>)}}

\* text json.loads cannot decode: plain words, and every cut-off object text
\* (the empty text among them)
UndecodableTexts ==
    {<<"plain", "text">>} \cup {SubSeq(t, 1, n) : t \in ObjectTexts, n \in 0..2}
        \cup {SubSeq(t, 1, Len(t) - 1) : t \in ObjectTexts}

\* what a gateway response may hold under "result"
RawResults ==
    Objects \cup {Str(t) : t \in ObjectTexts \cup NonObjectTexts \cup UndecodableTexts}
        \cup {None, Num(5), Num(0), List(<< >>), List(<<Num(5)>>)}

Absent == [t |-> "absent"]

GatewayStates == {K("PENDING"), K("RUNNING"), K("SUCCESS"), K("FAILURE"), K("TIMEOUT")}

\* values under "state" that are none of the five: another word, and null
UnlistedStates == {K("STARTED"), None}

TaskNotes == {None, K("research_task")}

\* a dict with the given values, leaving out the keys whose value is Absent
StatusBody(st, res, task) ==
    LET f0 == IF st = Absent THEN EmptyMap ELSE Put(EmptyMap, K("state"), st)
        f1 == IF res = Absent THEN f0 ELSE Put(f0, K("result"), res)
        f2 == IF task = Absent THEN f1 ELSE Put(f1, K("last_executed_task"), task)
    IN Dict(f2)

\* JSON bodies that are no object, or an object with nothing in it
OddBodies ==
    {None, Num(0), Num(5), Str(<< >>), Str(<<"kickoff_id">>), Str(<<"ok">>),
     List(<< >>), List(<<K("kickoff_id")>>), List(<<Num(5)>>), Dict(EmptyMap)}

StatusBodies ==
    {StatusBody(st, res, task) :
        st \in GatewayStates \cup UnlistedStates \cup {Absent},
        res \in RawResults \cup {Absent},
        task \in TaskNotes \cup {Absent}}

KickoffBodies ==
    {Dict(Put(EmptyMap, K("kickoff_id"), x)) : x \in {K("job1"), K("job2"), None}}
        \cup {Dict(Put(EmptyMap, K("detail"), K("bad request")))}

SecretKeys == {"CRW_API_URL", "CRW_API_TOKEN"}

\* what a deployment may hold under a secret: nothing, the empty text, a value
\* (for the URL with and without a trailing slash, and a bare slash)
SecretValues(key) ==
    IF key = "CRW_API_URL"
    THEN {None, Str(<< >>), Str(<<"/">>), Str(<<"https://amp">>), Str(<<"https://amp", "/">>)}
    ELSE {None, Str(<< >>), Str(<<"tok">>)}

Secrets == {s \in [SecretKeys -> UNION {SecretValues(k) : k \in SecretKeys}] :
               \A k \in SecretKeys : s[k] \in SecretValues(k)}

Configured == [k \in SecretKeys |-> IF k = "CRW_API_URL" THEN Str(<<"https://amp">>) ELSE Str(<<"tok">>)]

HttpFailures == {NetworkError, HttpError(401), HttpError(404), HttpError(500), NotJson}

PollExchanges == HttpFailures \cup {Json(b) : b \in StatusBodies \cup OddBodies}

KickoffExchanges == HttpFailures \cup {Json(b) : b \in KickoffBodies \cup OddBodies}

\* what extract_response is given: the result of a poll_status return
StatusResults == Objects \cup {None}

ApiCalls ==
    {[op |-> "poll_status", secrets |-> s, http |-> h] : s \in Secrets, h \in PollExchanges}
        \cup {[op |-> "kickoff_research", secrets |-> s, http |-> h] :
                 s \in Secrets, h \in KickoffExchanges}
        \cup {[op |-> "extract_response", arg |-> x] : x \in StatusResults}

NotCalled == [raised |-> FALSE, ret |-> [t |-> "not called"]]

NoCall == [op |-> "none"]

----------------------------------------------------------------------------
(* api.py: one action per function, applied to the call drawn by InitApi *)

PollStatus ==
    /\ apiIn.op = "poll_status"
    /\ apiOut = NotCalled
    /\ LET call == api_request(apiIn.secrets, PollRequest(K("job1")), apiIn.http)
       IN /\ apiOut' = IF call.out.raised THEN call.out ELSE poll_status(call.out.ret)
          /\ sent' = call.sent
    /\ UNCHANGED <<apiIn, flowVars, jobVars>>

KickoffResearch ==
    /\ apiIn.op = "kickoff_research"
    /\ apiOut = NotCalled
    /\ LET call == api_request(apiIn.secrets, KickoffRequest(K("question"), K("chat1")), apiIn.http)
       IN /\ apiOut' = IF call.out.raised THEN call.out ELSE kickoff_research(call.out.ret)
          /\ sent' = call.sent
    /\ UNCHANGED <<apiIn, flowVars, jobVars>>

ExtractResponse ==
    /\ apiIn.op = "extract_response"
    /\ apiOut = NotCalled
    /\ apiOut' = extract_response(apiIn.arg)
    /\ UNCHANGED <<apiIn, sent, flowVars, jobVars>>

----------------------------------------------------------------------------
(* api.py against a gateway: the requests, the job table, the worker *)

JobNumbers == 1..MaxJobs

JobId(n) == Str(<<"job", ToString(n)>>)

NoJob == [state |-> Absent, result |-> None, task |-> None]

Created(n) == jobs[n].state # Absent

\* what a job may end with under "result"
JobResults ==
    {Dict(Put(EmptyMap, K("response"), Str(<<"x">>))),
     Str(Dumps(Dict(Put(EmptyMap, K("response"), Str(<<"x">>))))),
     Str(<<"plain", "text">>)}

\* the gateway answers a request on the job table tbl: the table after it, and the exchange
Serve(tbl, req) ==
    IF req.method = "POST" /\ req.endpoint = <<"kickoff">>
    THEN LET free == {n \in JobNumbers : tbl[n].state = Absent}
         IN IF free = {} THEN [jobs |-> tbl, http |-> HttpError(429)]
            ELSE LET n == CHOOSE m \in free : \A k \in free : m <= k
                 IN [jobs |-> [tbl EXCEPT ![n] = [state |-> K("PENDING"), result |-> None, task |-> None]],
                     http |-> Json(Dict(Put(EmptyMap, K("kickoff_id"), JobId(n))))]
    ELSE IF req.method = "GET" /\ Len(req.endpoint) = 2 /\ req.endpoint[1] = "status"
    THEN LET known == {n \in JobNumbers : JobId(n) = req.endpoint[2] /\ tbl[n].state # Absent}
         IN IF known = {} THEN [jobs |-> tbl, http |-> HttpError(404)]
            ELSE LET n == CHOOSE m \in known : TRUE
                 IN [jobs |-> tbl,
                     http |-> Json(StatusBody(tbl[n].state, tbl[n].result, tbl[n].task))]
    ELSE [jobs |-> tbl, http |-> HttpError(404)]

Transports == {"ok", "request_lost", "response_lost"}

\* one HTTP exchange: the request may be lost before the gateway sees it, or the answer after
Exchange(tbl, req, transport) ==
    CASE transport = "ok"            -> Serve(tbl, req)
      [] transport = "request_lost"  -> [jobs |-> tbl, http |-> NetworkError]
      [] transport = "response_lost" -> [jobs |-> Serve(tbl, req).jobs, http |-> NetworkError]

GatewayFinal == {K("SUCCESS"), K("FAILURE"), K("TIMEOUT")}

\* the state a poll_status return carries
StateOf(out) == IF out.raised \/ out.ret.t # "dict" THEN None ELSE out.ret.v[K("state")]

Op(name, n, answered) == [op |-> name, job |-> n, answered |-> answered]

\* the client starts a job
ClientKickoff(msg, transport) ==
    /\ \E n \in JobNumbers : ~Created(n)
    /\ LET req == KickoffRequest(msg, K("chat1"))
           ex == Exchange(jobs, req, transport)
           call == api_request(Configured, req, ex.http)
           out == IF call.out.raised THEN call.out ELSE kickoff_research(call.out.ret)
           new == {n \in JobNumbers : jobs[n] # ex.jobs[n]}
       IN /\ jobs' = ex.jobs
          /\ handles' = IF out.raised \/ out.ret = None THEN handles ELSE handles \cup {out.ret}
          /\ clean' = [n \in JobNumbers |-> IF n \in new THEN FALSE ELSE clean[n]]
          /\ lastOp' = Op("kickoff", 0, ex.http.kind = "json")
    /\ UNCHANGED <<returned, firstFinal, flowVars, apiVars>>

\* the client polls job n
ClientPoll(n, transport) ==
    /\ LET req == PollRequest(JobId(n))
           ex == Exchange(jobs, req, transport)
           call == api_request(Configured, req, ex.http)
           out == IF call.out.raised THEN call.out ELSE poll_status(call.out.ret)
       IN /\ jobs' = ex.jobs
          /\ returned' = [returned EXCEPT ![n] = out]
          /\ firstFinal' = [firstFinal EXCEPT ![n] =
                                IF @ = None /\ StateOf(out) \in GatewayFinal THEN StateOf(out) ELSE @]
          /\ clean' = [clean EXCEPT ![n] = ex.http.kind = "json"]
          /\ lastOp' = Op("poll", n, ex.http.kind = "json")
    /\ UNCHANGED <<handles, flowVars, apiVars>>

Moved(n, name) ==
    /\ clean' = [clean EXCEPT ![n] = FALSE]
    /\ lastOp' = Op(name, n, FALSE)
    /\ UNCHANGED <<handles, returned, firstFinal, flowVars, apiVars>>

\* the worker takes up job n
WorkerStart(n) ==
    /\ jobs[n].state = K("PENDING")
    /\ jobs' = [jobs EXCEPT ![n].state = K("RUNNING")]
    /\ Moved(n, "start")

\* the worker ends a task of job n
WorkerProgress(n) ==
    /\ jobs[n].state = K("RUNNING")
    /\ jobs[n].task = None
    /\ jobs' = [jobs EXCEPT ![n].task = K("research_task")]
    /\ Moved(n, "progress")

\* the worker ends job n
WorkerFinish(n, final, res) ==
    /\ jobs[n].state = K("RUNNING")
    /\ jobs' = [jobs EXCEPT ![n].state = final,
                            ![n].result = IF final = K("SUCCESS") THEN res ELSE None]
    /\ Moved(n, "finish")

----------------------------------------------------------------------------
(* The specifications *)

FlowInit ==
    /\ state = FlowState
    /\ saved = FlowState
    /\ pc = "idle"
    /\ pending = {}
    /\ response = NoResponse
    /\ pre = FlowState
    /\ route = None
    /\ runs = NoRuns
    /\ failedIn = "none"
    /\ turn = 0
    /\ asked = NotAsked

ApiIdle ==
    /\ apiIn = NoCall
    /\ apiOut = NotCalled
    /\ sent = << >>

JobInit ==
    /\ jobs = [n \in JobNumbers |-> NoJob]
    /\ handles = {}
    /\ returned = [n \in JobNumbers |-> NotCalled]
    /\ firstFinal = [n \in JobNumbers |-> None]
    /\ clean = [n \in JobNumbers |-> FALSE]
    /\ lastOp = Op("none", 0, FALSE)

\* the flow: a conversation of up to MaxTurns turns
Init == FlowInit /\ ApiIdle /\ JobInit

Next ==
    \/ \E msg \in UserMessages : StartingFlow(msg)
    \/ \E llm \in ClassifierOutcomes : RoutingIntent(llm)
    \/ \E gen \in GenOutcomes(Replies) : FollowUpConversation(gen)
    \/ \E gen \in GenOutcomes(Postings) : HandleJobCreation(gen)
    \/ \E gen \in GenOutcomes(Postings) : HandleRefinement(gen)

Spec == Init /\ [][Next]_vars

\* the functions of api.py, each applied once to a call drawn from ApiCalls
InitApi == FlowInit /\ JobInit /\ apiIn \in ApiCalls /\ apiOut = NotCalled /\ sent = << >>

NextApi == PollStatus \/ KickoffResearch \/ ExtractResponse

SpecApi == InitApi /\ [][NextApi]_vars

\* the client against the gateway and its worker
InitJob == FlowInit /\ ApiIdle /\ JobInit

NextJob ==
    \/ \E msg \in UserMessages, tr \in Transports : ClientKickoff(msg, tr)
    \/ \E n \in JobNumbers, tr \in Transports : ClientPoll(n, tr)
    \/ \E n \in JobNumbers : WorkerStart(n)
    \/ \E n \in JobNumbers : WorkerProgress(n)
    \/ \E n \in JobNumbers, final \in GatewayFinal, res \in JobResults : WorkerFinish(n, final, res)

SpecJob == InitJob /\ [][NextJob]_vars

----------------------------------------------------------------------------
(* The flow: claims C1 to C4 *)

RouterStep == pc = "routing" /\ response'.kind = "intent"

\* C1 (merge monotonicity): when routing_intent has got a RouterIntent, each
\* collected field k afterwards holds the classifier's value for k if that
\* value is non-empty and the value stored before otherwise; and no step of the
\* flow, router or branch, turns a non-empty collected field into an empty one.
C1_MergeMonotonicity ==
    [][\A k \in CollectedFields :
          /\ RouterStep =>
                state'[k] = IF Truthy(response'.value[k]) THEN response'.value[k] ELSE state[k]
          /\ Truthy(state[k]) => Truthy(state'[k])]_vars

\* a router has kept a stored role against an empty classifier value, and has
\* replaced a stored feedback by a new one
C1_Witness ==
    /\ pc = "branching"
    /\ response.kind = "intent"
    /\ Truthy(pre.job_role)
    /\ ~Truthy(response.value.job_role)
    /\ state.job_role = pre.job_role
    /\ Truthy(pre.feedback)
    /\ Truthy(response.value.feedback)
    /\ state.feedback = response.value.feedback
    /\ state.feedback # pre.feedback

Ran == {m \in Methods : runs[m] > 0}

\* C2 (single branch per turn): in a turn whose classifier returned a decision
\* the route is one of the three names, exactly one listener is selected, no
\* listener runs twice, and a finished turn has run exactly that one listener
\* once; in a turn without a decision no listener is selected or run.
C2_SingleBranchPerTurn ==
    /\ route # None =>
          /\ route.v[1] \in Intents
          /\ Cardinality(pending \cup Ran) = 1
          /\ \A m \in Methods : runs[m] <= 1
          /\ pc = "done" => pending = {} /\ Cardinality(Ran) = 1
    /\ route = None => pending = {} /\ Ran = {}

\* a turn has ended after handle_refinement ran once
C2_Witness ==
    /\ pc = "done"
    /\ route = Str(<<"refinement">>)
    /\ runs["handle_refinement"] = 1

Kept == CollectedFields \cup {"job_posting"}

BranchFailed == pc = "failed" /\ failedIn \in Methods

\* C3 as the spec states it (atomic turn commit): after a turn whose branch
\* failed, the collected fields and the posting, in memory and as persisted,
\* are those of before the turn.
C3_AtomicTurnCommit_Original ==
    BranchFailed => \A k \in Kept : state[k] = pre[k] /\ saved[k] = pre[k]

\* C3 as the code has it: a branch that fails leaves the FlowState as
\* routing_intent left it, in memory and as persisted: the posting and the
\* message history are untouched, and the fields merged in this turn stay.
C3_FailedBranchKeepsRouterState ==
    [][(pc = "branching" /\ pc' = "failed") => (state' = state /\ saved' = saved /\ saved = state)]_vars

\* the editor agent failed in a turn whose router had merged a new role, with
\* a posting of an earlier turn in place
C3_Witness ==
    /\ BranchFailed
    /\ failedIn = "handle_refinement"
    /\ state.job_posting # None
    /\ state.job_posting = pre.job_posting
    /\ state.job_role # pre.job_role
    /\ saved = state

\* C4 (classification failure): when llm.call raises or returns something that
\* is no RouterIntent, the turn fails in routing_intent, no route is returned,
\* no listener is selected or run, and the collected fields and the posting
\* stay as they were.
C4_ClassificationFailure ==
    [][(pc = "routing" /\ response'.kind \in {"raised", "text"}) =>
          /\ pc' = "failed"
          /\ failedIn' = "routing_intent"
          /\ route' = None
          /\ pending' = {}
          /\ runs' = NoRuns
          /\ \A k \in Kept : state'[k] = state[k] /\ saved'[k] = saved[k]]_vars

\* the classifier returned text in a later turn, with fields already collected
C4_Witness ==
    /\ pc = "failed"
    /\ failedIn = "routing_intent"
    /\ response.kind = "text"
    /\ Truthy(state.job_role)
    /\ state.job_posting # None
    /\ Ran = {}

----------------------------------------------------------------------------
(* The flow: claims C14 to C19 *)

Required == {RequiredFields[i] : i \in 1..Len(RequiredFields)}

\* the listener m is about to run, and runs in the step
Runs(m) == pc = "branching" /\ m \in pending /\ pc' # "branching"

\* the RouterIntent the classifier returned in this turn
Decision == response.value

\* C14 (Produce/Gather guard): whatever intent the classifier returns,
\* handle_job_creation has run only with job_role, location and company_name
\* all populated, and when the router has returned with one of them missing
\* and no posting in place the listener selected is follow_up_conversation.
C14_ProduceGatherGuard ==
    /\ runs["handle_job_creation"] > 0 => \A k \in Required : Truthy(asked[k])
    /\ (pc = "branching" /\ state.job_posting = None /\ \E k \in Required : ~Truthy(state[k]))
          => pending = {"follow_up_conversation"}

\* C15 (Revise guard): whatever intent the classifier returns and whatever
\* turns came before, handle_refinement has run only with a posting in place:
\* the posting it put in its prompt is not None.
C15_ReviseGuard ==
    runs["handle_refinement"] > 0 => asked.job_posting # Format(None)

\* what the classifier supplied in this turn under k, None if nothing
Supplied(k) == IF Truthy(Decision[k]) THEN Decision[k] ELSE None

\* C16 (fresh feedback on Revise): in every turn routed to handle_refinement,
\* the feedback put in the editor's prompt is the feedback the classifier
\* extracted in that same turn (none, if it extracted none), never one left
\* from an earlier turn.
C16_FreshFeedback ==
    [][Runs("handle_refinement") => asked'.feedback = Format(Supplied("feedback"))]_vars

\* C17 (reset on new artifact): when handle_job_creation runs with a posting
\* already in place, the crew is given only the field values supplied in this
\* turn, none of the fields of the earlier posting, and after the step the
\* feedback given on the earlier posting is gone.
C17_ResetOnNewArtifact ==
    [][(Runs("handle_job_creation") /\ state.job_posting # None) =>
          /\ \A k \in Required : asked'[k] = Supplied(k)
          /\ state'.feedback = Supplied("feedback")]_vars

\* the words of a joined list
Words(joined) == {joined[i] : i \in 1..Len(joined)} \ {", "}

\* C18 (Gather branch): the fields follow_up_conversation asks for as still
\* needed are exactly the required fields whose stored value is empty, and the
\* step leaves job_role, location, company_name, feedback, job_posting and
\* user_message as they were: the message history gets one assistant message,
\* the reply, at its end when the reply call returned, and is left as it was
\* when the call raised.
C18_GatherBranch ==
    [][Runs("follow_up_conversation") =>
          /\ Words(asked'.missing_str) =
                {MissingLabel(k) : k \in {f \in Required : state[f] \in {None, Str(<< >>)}}}
          /\ \A k \in DOMAIN state \ {"message_history"} : state'[k] = state[k]
          /\ IF pc' = "failed" THEN state'.message_history = state.message_history
             ELSE \E reply \in Replies :
                     state'.message_history = Append(state.message_history, Message("assistant", reply))]_vars

\* a turn with role and location stored and no company ended in
\* follow_up_conversation, which asked for the company name only
C18_Witness ==
    /\ pc = "done"
    /\ route = Str(<<"conversation">>)
    /\ runs["follow_up_conversation"] = 1
    /\ Truthy(state.job_role) /\ Truthy(state.location) /\ state.company_name = None
    /\ asked.missing_str = <<"company name">>
    /\ state.message_history[Len(state.message_history)] = Message("assistant", Str(<<"r">>))

\* the messages appended since the turn began
Appended == SubSeq(state.message_history, Len(pre.message_history) + 1, Len(state.message_history))

AssistantMessages(msgs) == {i \in 1..Len(msgs) : msgs[i].role = "assistant"}

\* C19 (assistant message only on success): every step leaves the message
\* history as it was or appends one message at its end; an assistant message
\* is appended only by the step in which a listener's generation call
\* returned, for handle_job_creation and handle_refinement with the new
\* job_posting as its content; a listener whose call raised appends nothing;
\* and no turn appends more than one assistant message.
C19_AssistantMessageOnSuccess ==
    /\ [](Cardinality(AssistantMessages(Appended)) <= 1)
    /\ [][LET old == state.message_history
              new == state'.message_history
          IN /\ Len(new) \in {Len(old), Len(old) + 1}
             /\ SubSeq(new, 1, Len(old)) = old
             /\ (new # old /\ new[Len(new)].role = "assistant") =>
                   /\ pc = "branching" /\ pc' = "done"
                   /\ \E m \in pending : runs'[m] = runs[m] + 1
                   /\ pending # {"follow_up_conversation"} =>
                         /\ new[Len(new)].content = state'.job_posting
                         /\ state'.job_posting \in Postings
             /\ (pc = "branching" /\ pc' = "failed") => new = old]_vars

\* the editor agent returned a posting that differs from the one in place:
\* it is the posting now, and the last message of the history
C19_Witness ==
    /\ pc = "done"
    /\ runs["handle_refinement"] = 1
    /\ pre.job_posting = Str(<<"p1">>)
    /\ state.job_posting = Str(<<"p2">>)
    /\ state.message_history[Len(state.message_history)] = Message("assistant", Str(<<"p2">>))
    /\ Cardinality(AssistantMessages(Appended)) = 1

----------------------------------------------------------------------------
(* api.py: claims C5 to C8 *)

\* poll_status has been called and its request went out
Polled == apiIn.op = "poll_status" /\ apiOut # NotCalled /\ sent # << >>

\* the poll got a JSON object whose state is SUCCESS
PolledSuccess ==
    /\ Polled
    /\ apiIn.http.kind = "json"
    /\ apiIn.http.body.t = "dict"
    /\ Get(apiIn.http.body, K("state"), None) = K("SUCCESS")

\* the raw result of the polled response (Absent when it has none)
Raw == Get(apiIn.http.body, K("result"), Absent)

\* the result poll_status returned
ResultOf(out) == out.ret.v[K("result")]

\* C5 (structured payload on SUCCESS): for every gateway response whose state
\* is SUCCESS, whatever its raw result, poll_status does not raise and returns
\* a result that is a mapping.
C5_SuccessResultIsMapping ==
    PolledSuccess => (~apiOut.raised /\ ResultOf(apiOut).t = "dict")

\* the same response with the raw result replaced by x
WithResult(x) == Dict(Put(apiIn.http.body.v, K("result"), x))

\* C6 as the spec states it (result normalization): on SUCCESS, (a) a raw
\* result that is an object comes back unchanged, (b) text that encodes an
\* object comes back as that object, with the same extracted answer as the
\* object itself gives, (c) text that cannot be decoded comes back as
\* {"response": raw}.
C6_ResultNormalization_Original ==
    PolledSuccess =>
        /\ ~apiOut.raised
        /\ Raw.t = "dict" => ResultOf(apiOut) = Raw
        /\ \A o \in Objects :
              Raw = Str(Dumps(o)) =>
                  /\ ResultOf(apiOut) = o
                  /\ extract_response(ResultOf(apiOut))
                        = extract_response(ResultOf(poll_status(WithResult(o))))
        /\ (Raw.t = "str" /\ ~JsonLoads(Raw.v).ok) =>
              ResultOf(apiOut) = Dict(Put(EmptyMap, K("response"), Raw))

\* C6 as the code has it: (a) and (c) hold for a non-empty object and for
\* non-empty text; an empty object and the empty text give the result null;
\* (b) holds as stated.
C6_ResultNormalization ==
    PolledSuccess =>
        /\ ~apiOut.raised
        /\ Raw.t = "dict" =>
              ResultOf(apiOut) = IF Raw = Dict(EmptyMap) THEN None ELSE Raw
        /\ \A o \in Objects :
              Raw = Str(Dumps(o)) =>
                  /\ ResultOf(apiOut) = o
                  /\ extract_response(ResultOf(apiOut))
                        = extract_response(ResultOf(poll_status(WithResult(o))))
        /\ (Raw.t = "str" /\ ~JsonLoads(Raw.v).ok) =>
              ResultOf(apiOut) = IF Raw = Str(<< >>) THEN None
                                 ELSE Dict(Put(EmptyMap, K("response"), Raw))

\* a poll has decoded the text {"response": "x", "chat_response": "y"}
C6_Witness ==
    /\ PolledSuccess
    /\ Raw = Str(<<"{", Q, "response", Q, ":", Q, "x", Q, ",",
                   Q, "chat_response", Q, ":", Q, "y", Q, "}">>)
    /\ ResultOf(apiOut) =
          Dict(Put(Put(EmptyMap, K("response"), Str(<<"x">>)), K("chat_response"), Str(<<"y">>)))

Extracted == apiIn.op = "extract_response" /\ apiOut # NotCalled

IsObject(x) == x.t = "dict"

\* C7 as the spec states it (alias priority): extract_response returns the
\* value of response when it is non-empty, else the value of chat_response
\* when that is non-empty, and None in every other case.
C7_AliasPriority_Original ==
    Extracted =>
        LET r == apiIn.arg
            first == IF IsObject(r) THEN Get(r, K("response"), None) ELSE None
            second == IF IsObject(r) THEN Get(r, K("chat_response"), None) ELSE None
        IN apiOut = Ret(IF Truthy(first) THEN first
                        ELSE IF Truthy(second) THEN second
                        ELSE None)

\* C7 as the code has it: in every other case the value returned is empty: it
\* is the empty value stored under chat_response when the result has that
\* alias, and None when it has not or the result is null.
C7_AliasPriority ==
    Extracted =>
        LET r == apiIn.arg
            first == IF IsObject(r) THEN Get(r, K("response"), None) ELSE None
            second == IF IsObject(r) THEN Get(r, K("chat_response"), None) ELSE None
        IN /\ ~apiOut.raised
           /\ apiOut.ret = (IF Truthy(first) THEN first ELSE second)
           /\ (~Truthy(first) /\ ~Truthy(second)) => ~Truthy(apiOut.ret)

\* a result with both aliases non-empty has given the value of response
C7_Witness ==
    /\ Extracted
    /\ apiIn.arg =
          Dict(Put(Put(EmptyMap, K("response"), Str(<<"x">>)), K("chat_response"), Str(<<"y">>)))
    /\ apiOut = Ret(Str(<<"x">>))

\* the exchange failed: the request went out and got no answer, an error status,
\* or a body that is no JSON object
ExchangeFailed ==
    /\ sent # << >>
    /\ \/ apiIn.http.kind # "json"
       \/ apiIn.http.body.t # "dict"

\* C8 (transport failure isolation): when the exchange with the gateway fails,
\* neither function raises, poll_status returns exactly ERROR with a null
\* result and a null last task, and kickoff_research returns no job id.
C8_TransportFailureIsolation ==
    /\ (Polled /\ ExchangeFailed) => apiOut = Ret(StatusDict(K("ERROR"), None, None))
    /\ (apiIn.op = "kickoff_research" /\ apiOut # NotCalled /\ ExchangeFailed) => apiOut = Ret(None)

\* the state poll_status returned
StateReturned == apiOut.ret.v[K("state")]

PollReturned == apiIn.op = "poll_status" /\ apiOut # NotCalled /\ ~apiOut.raised

Requested == apiIn.op \in {"poll_status", "kickoff_research"} /\ apiOut # NotCalled

\* the secret under key is missing or empty
SecretMissing(key) == ~Truthy(apiIn.secrets[key])

\* C12 (configuration fail-fast): when the base URL or the bearer token is
\* missing or empty, poll_status and kickoff_research, through api_request,
\* end in the stop that follows the configuration error message, whatever the
\* gateway would have answered: no request is handed to the HTTP library, not
\* one and not a repeated one, no value is returned (no ERROR status, no null
\* job id), and no URL or token is put in the place of the missing one.
C12_ConfigurationFailFast ==
    (Requested /\ (SecretMissing("CRW_API_URL") \/ SecretMissing("CRW_API_TOKEN"))) =>
        /\ sent = << >>
        /\ apiOut = Stopped(IF SecretMissing("CRW_API_URL") THEN "CRW_API_URL is not configured"
                                                      ELSE "CRW_API_TOKEN is not configured")

\* poll_status was called with a URL and no token, on a gateway that would
\* have answered SUCCESS
C12_Witness ==
    /\ apiIn.op = "poll_status"
    /\ apiIn.secrets["CRW_API_URL"] = Str(<<"https://amp", "/">>)
    /\ apiIn.secrets["CRW_API_TOKEN"] = None
    /\ apiIn.http = Json(StatusBody(K("SUCCESS"), Dict(Put(EmptyMap, K("response"), Str(<<"x">>))), None))
    /\ apiOut = Stopped("CRW_API_TOKEN is not configured")
    /\ sent = << >>

\* C20 (result only on SUCCESS): in every response poll_status returns, the
\* result is non-null only if the returned state is SUCCESS; for every other
\* state, ERROR and the states outside the five included, the result is null
\* whatever the gateway response carried under "result".
C20_ResultOnlyOnSuccess ==
    PollReturned => (ResultOf(apiOut) # None => StateReturned = K("SUCCESS"))

\* a FAILURE response that carried a result object was polled: the result returned is null
C20_Witness ==
    /\ PollReturned
    /\ apiIn.http = Json(StatusBody(K("FAILURE"), Dict(Put(EmptyMap, K("response"), Str(<<"x">>))), None))
    /\ apiOut = Ret(StatusDict(K("FAILURE"), None, None))

----------------------------------------------------------------------------
(* The gateway: claims C9 and C10 *)

Terminal == GatewayFinal \cup {K("ERROR")}

\* C9 as the spec states it (forward-only status): once a poll of a job has
\* returned SUCCESS, FAILURE, TIMEOUT or ERROR, every later poll of that job
\* returns the same status.
C9_ForwardOnly_Original ==
    [][\A n \in JobNumbers :
          StateOf(returned[n]) \in Terminal => StateOf(returned'[n]) = StateOf(returned[n])]_vars

\* C9 as the code has it: once a poll of a job has returned SUCCESS, FAILURE or
\* TIMEOUT, every later poll of that job returns that status or ERROR; ERROR
\* stands for a poll that got no answer and is followed by whatever status the
\* job has.
C9_ForwardOnly ==
    \A n \in JobNumbers :
        firstFinal[n] # None => StateOf(returned[n]) \in {firstFinal[n], K("ERROR")}

\* a job polled as SUCCESS was polled again without an answer: ERROR
C9_Witness ==
    \E n \in JobNumbers :
        /\ firstFinal[n] = K("SUCCESS")
        /\ StateOf(returned[n]) = K("ERROR")
        /\ jobs[n].state = K("SUCCESS")

====
